---- MODULE Spec2Model ----
(***************************************************************************)
(* Model-order selection (my_model_selectors.py) and maximum-likelihood    *)
(* recognition (my_recognizer.py).                                         *)
(*                                                                         *)
(* The HMM trainer/scorer (hmmlearn.GaussianHMM) and the fold splitter     *)
(* (sklearn KFold) are external: a fit either succeeds or raises, a score  *)
(* either yields a log-likelihood or raises.  Their outcomes are inputs.   *)
(* The trainer is deterministic (fixed random_state), so the outcome of    *)
(* fitting the target class at a given state count is fixed for a run      *)
(* (variables fits, logL); outcomes that the code asks for only once are   *)
(* drawn when the call is made.                                            *)
(*                                                                         *)
(* Numbers: log-likelihoods are small integers.  Python floats that arise  *)
(* from them by one subtraction and one division are modelled exactly as   *)
(* normalised fractions <<num, den>> with den > 0; <<1,0>> is float("Inf"),*)
(* <<-1,0>> is float("-inf") and <<0,0>> is Python's None.  ln N is taken  *)
(* to three decimals, so a BIC is a fraction over 1000.                    *)
(*                                                                         *)
(* The variables call, seen, crit and outcomes are history variables: they *)
(* record what was asked of the trainer and what it answered.              *)
(***************************************************************************)
EXTENDS Integers, Sequences, FiniteSets

VARIABLES
    kind,                   \* which selector class runs select()
    pc,                     \* position inside select() / recognize()
    result,                 \* what select() returned (Pending until it returns)
    fits,                   \* state counts at which GaussianHMM.fit succeeds on self.X
    logL,                   \* outcome of model(n).score(self.X, self.lengths)
    lenX,                   \* len(self.X)
    n_features,             \* model.n_features
    n,                      \* loop variable of the sweep
    best_model,             \* SelectorBIC: best_model
    best_num_components,    \* SelectorDIC / SelectorCV: 0 stands for None
    best_score,             \* best_score / best_DIC_score / best_avg_likelihood_log
    score,                  \* criterion computed for the last candidate (score / DIC / avg_logL)
    words,                  \* SelectorDIC: keys of self.words
    this_word,              \* SelectorDIC: self.this_word
    todo,                   \* SelectorDIC: rest of the inner loop over words
    log_P_X_i,              \* SelectorDIC
    sum_log_P_X_all_but_i,  \* SelectorDIC
    M,                      \* SelectorDIC
    sequences,              \* SelectorCV: len(self.sequences)
    fold,                   \* SelectorCV: index of the next split of KFold
    sum_logL,               \* SelectorCV
    count_logL,             \* SelectorCV
    call,                   \* history: data of the last fit and of the last score
    seen,                   \* history: log-likelihoods obtained for the current candidate
    crit,                   \* history (DIC, CV): criterion of each candidate, from the outcomes drawn
    models,                 \* recognize: the dict models, in iteration order
    items,                  \* recognize: number of test items
    item,                   \* recognize: index of the current test item
    rest,                   \* recognize: keys of models still to visit for the item
    log_l,                  \* recognize: log_l
    max_score,              \* recognize: max_score
    best_guess,             \* recognize: best_guess, 0 stands for None
    probabilities,          \* recognize: probabilities
    guesses,                \* recognize: guesses
    outcomes                \* history: per item, the outcome of each model.score call

oracleVars == <<fits, logL, lenX, n_features>>
sweepVars  == <<n, best_model, best_num_components, best_score, score>>
dicVars    == <<words, this_word, todo, log_P_X_i, sum_log_P_X_all_but_i, M>>
cvVars     == <<sequences, fold, sum_logL, count_logL>>
histVars   == <<call, seen, crit>>
recVars    == <<models, items, item, rest, log_l, max_score, best_guess,
                probabilities, guesses, outcomes>>
vars == <<kind, pc, result, oracleVars, sweepVars, dicVars, cvVars, histVars, recVars>>

----------------------------------------------------------------------------
(* Program constants and bounds *)

n_constant == 3
min_n_components == 2
n_splits == 3

MaxN == 4          \* max_n_components explored
MaxWords == 3      \* classes in the Dataset (SelectorDIC)
MaxSeqs == 4       \* sequences of the target class (SelectorCV)
MaxModels == 3     \* entries of the model map (recognize)
MaxItems == 2      \* test items (recognize)

Candidates == min_n_components..MaxN
LogLs == {-12, -3}          \* log-likelihood values a score may return
LenXs == {3, 20}
Features == {1, 2}

----------------------------------------------------------------------------
(* Values *)

None == [tag |-> "None", n_components |-> 0]
Raise == [tag |-> "Raise", n_components |-> 0]
Pending == [tag |-> "Pending", n_components |-> 0]
Model(k) == [tag |-> "Model", n_components |-> k]

Ok(v) == [ok |-> TRUE, v |-> v]
Fail == [ok |-> FALSE, v |-> 0]
ScoreOutcomes == {Fail} \cup {Ok(v) : v \in LogLs}

Inf == <<1, 0>>
NegInf == <<-1, 0>>
PyNone == <<0, 0>>

Abs(x) == IF x < 0 THEN -x ELSE x

RECURSIVE GCD(_, _)
GCD(a, b) == IF b = 0 THEN a ELSE GCD(b, a % b)

\* a float obtained from small integers: the fraction in lowest terms
Float(num, den) ==
    LET g == GCD(Abs(num), den) IN <<num \div g, den \div g>>

\* a < b on floats, Inf and NegInf included (Python raises on None, which
\* the callers test for first: never less)
Less(a, b) ==
    IF a[2] # 0 /\ b[2] # 0 THEN a[1] * b[2] < b[1] * a[2]
    ELSE IF a = PyNone \/ b = PyNone THEN FALSE
    ELSE (a = NegInf /\ b # NegInf) \/ (b = Inf /\ a # Inf)

RECURSIVE SumSeq(_)
SumSeq(s) == IF s = <<>> THEN 0 ELSE Head(s) + SumSeq(Tail(s))

\* the whole data of a class (X, lengths of all_word_Xlengths[word])
Whole(w) == [word |-> w, whole |-> TRUE, seqs |-> {}]
\* combine_sequences(idx, self.sequences)
Combined(w, idx) == [word |-> w, whole |-> FALSE, seqs |-> idx]
NoData == [word |-> 0, whole |-> FALSE, seqs |-> {}]
NoCall == [fit |-> NoData, states |-> 0, scored |-> NoData]

\* 1000 * ln(N), rounded
LnMilli(N) ==
    CASE N = 1 -> 0
      [] N = 2 -> 693
      [] N = 3 -> 1099
      [] N = 8 -> 2079
      [] N = 20 -> 2996

----------------------------------------------------------------------------
(* ModelSelector *)

base_model_raises(num_states, fitOK) ==
    IF fitOK THEN Model(num_states) ELSE Raise

\* base_model: the fit raises -> None
base_model(num_states, fitOK) ==
    IF fitOK THEN Model(num_states) ELSE None

\* model.score(X, lengths): AttributeError on None, or the scorer raises
hmm_score(model, outcome) ==
    IF model.tag # "Model" THEN Fail
    ELSE outcome

break_sweep(k) == MaxN + 1

\* an exception inside the loop body is swallowed and the sweep goes on with
\* the next candidate (except: continue / except: pass)
continue_sweep(k) == k + 1

select_fallback_none(best, fitted) ==
    IF best = 0 THEN None ELSE base_model(best, best \in fitted)

\* the return of SelectorDIC.select and SelectorCV.select
select_return(best, fitted) ==
    IF best = 0
    THEN base_model(n_constant, n_constant \in fitted)
    ELSE base_model(best, best \in fitted)

----------------------------------------------------------------------------
(* Criteria as the specification states them, from the trainer's outcomes *)

Usable(c) == c[2] # 0

\* BIC(n) = -2 logL(n) + (n^2 + 2 d n - 1) ln N, in units of 1/1000
RefBIC(k) ==
    IF k \in fits /\ logL[k].ok
    THEN Float(-2000 * logL[k].v + (k * k + 2 * n_features * k - 1) * LnMilli(lenX), 1000)
    ELSE PyNone

\* own log-likelihood minus the mean of the other classes' scores that succeeded
RefDIC(k, others) ==
    IF k \in fits /\ logL[k].ok /\ others # <<>>
    THEN Float(logL[k].v * Len(others) - SumSeq(others), Len(others))
    ELSE PyNone

\* mean log-likelihood over the folds that succeeded
RefCV(k, folds) ==
    IF folds # <<>> THEN Float(SumSeq(folds), Len(folds)) ELSE PyNone

\* what select() owes when no candidate is usable
Fallback == IF n_constant \in fits THEN Model(n_constant) ELSE None

----------------------------------------------------------------------------
(* Idle values of the variables an operation does not use *)

SweepInit ==
    /\ n = min_n_components
    /\ best_model = None
    /\ best_num_components = 0
    /\ score = PyNone
    /\ result = Pending
    /\ call = NoCall
    /\ seen = <<>>
    /\ crit = [k \in Candidates |-> PyNone]

DicIdle ==
    /\ todo = <<>>
    /\ log_P_X_i = 0
    /\ sum_log_P_X_all_but_i = 0
    /\ M = 0

CvIdle ==
    /\ fold = 0
    /\ sum_logL = 0
    /\ count_logL = 0

RecIdle ==
    /\ models = <<>>
    /\ items = 0
    /\ item = 0
    /\ rest = <<>>
    /\ log_l = <<>>
    /\ max_score = NegInf
    /\ best_guess = 0
    /\ probabilities = <<>>
    /\ guesses = <<>>
    /\ outcomes = <<>>

OneClass ==
    /\ words = {1}
    /\ this_word = 1

NoScores ==
    /\ logL = [k \in Candidates |-> Fail]
    /\ lenX = 3
    /\ n_features = 1

----------------------------------------------------------------------------
(* SelectorConstant *)

InitConstant ==
    /\ kind = "Constant"
    /\ pc = "loop"
    /\ fits \in SUBSET Candidates
    /\ NoScores
    /\ SweepInit
    /\ best_score = PyNone
    /\ OneClass /\ DicIdle
    /\ sequences = 0 /\ CvIdle
    /\ RecIdle

ConstantSelect ==
    /\ kind = "Constant"
    /\ pc = "loop"
    /\ result' = base_model(n_constant, n_constant \in fits)
    /\ call' = [fit |-> Whole(this_word), states |-> n_constant, scored |-> NoData]
    /\ pc' = "done"
    /\ UNCHANGED <<kind, oracleVars, sweepVars, dicVars, cvVars, seen, crit, recVars>>

----------------------------------------------------------------------------
(* SelectorBIC *)

NoBIC == [raised |-> TRUE, BIC |-> PyNone, model |-> None]

BIC_score_no_penalty(k, fitted, outcome, N, d) ==
    LET model == base_model(k, k \in fitted)
        l == hmm_score(model, outcome)
    IN  IF model.tag # "Model" \/ ~l.ok THEN NoBIC
        ELSE [raised |-> FALSE, BIC |-> Float(-2000 * l.v, 1000), model |-> model]

\* BIC_score(n): (BIC, model), or an exception
BIC_score(k, fitted, outcome, N, d) ==
    LET model == base_model(k, k \in fitted)
        logN == LnMilli(N)
        l == hmm_score(model, outcome)
        p == k * k + 2 * d * k - 1
    IN  IF model.tag # "Model" THEN NoBIC      \* model.n_features raises
        ELSE IF ~l.ok THEN NoBIC               \* model.score raises
        ELSE [raised |-> FALSE,
              BIC |-> Float(-2000 * l.v + p * logN, 1000),
              model |-> model]

BIC_return(best, fitted) ==
    IF best # None THEN best ELSE base_model(n_constant, n_constant \in fitted)

InitBIC ==
    /\ kind = "BIC"
    /\ pc = "loop"
    /\ fits \in SUBSET Candidates
    /\ logL \in [Candidates -> ScoreOutcomes]
    /\ \A k \in Candidates : k \notin fits => logL[k] = Fail
    /\ lenX \in LenXs
    /\ n_features \in Features
    /\ SweepInit
    /\ best_score = Inf
    /\ OneClass /\ DicIdle
    /\ sequences = 0 /\ CvIdle
    /\ RecIdle

\* one pass of the loop over range(min_n_components, max_n_components + 1)
BICIter ==
    /\ kind = "BIC"
    /\ pc = "loop"
    /\ n <= MaxN
    /\ LET r == BIC_score(n, fits, logL[n], lenX, n_features) IN
         IF r.raised
         THEN \* except Exception: continue
              /\ score' = PyNone
              /\ n' = continue_sweep(n)
              /\ UNCHANGED <<best_score, best_model>>
         ELSE /\ score' = r.BIC
              /\ n' = n + 1
              /\ IF Less(r.BIC, best_score)
                 THEN best_score' = r.BIC /\ best_model' = r.model
                 ELSE UNCHANGED <<best_score, best_model>>
    /\ call' = [fit |-> Whole(this_word), states |-> n,
                scored |-> IF n \in fits THEN Whole(this_word) ELSE NoData]
    /\ UNCHANGED <<kind, pc, result, oracleVars, best_num_components, dicVars,
                   cvVars, seen, crit, recVars>>

BICReturn ==
    /\ kind = "BIC"
    /\ pc = "loop"
    /\ n > MaxN
    /\ result' = BIC_return(best_model, fits)
    /\ call' = IF best_model # None THEN call
               ELSE [fit |-> Whole(this_word), states |-> n_constant,
                     scored |-> NoData]
    /\ pc' = "done"
    /\ UNCHANGED <<kind, oracleVars, sweepVars, dicVars, cvVars, seen, crit, recVars>>

----------------------------------------------------------------------------
(* SelectorDIC *)

\* list(self.words.keys()) with this_word removed
OtherWords(ws, w) == SelectSeq([i \in 1..Cardinality(ws) |-> i], LAMBDA x : x # w)

NoDIC == [raised |-> TRUE, DIC |-> PyNone]

DIC_value_fixed_divisor(logP, total, m, classes) ==
    IF classes - 1 = 0 THEN NoDIC
    ELSE [raised |-> FALSE, DIC |-> Float(logP * (classes - 1) - total, classes - 1)]

\* DIC = log_P_X_i - sum_log_P_X_all_but_i / (M - 1); ZeroDivisionError when M = 1
\* (classes is len(words), which the code does not use here)
DIC_value(logP, total, m, classes) ==
    IF m - 1 = 0 THEN NoDIC
    ELSE [raised |-> FALSE, DIC |-> Float(logP * (m - 1) - total, m - 1)]

\* best is None or best < candidate
better(best, candidate) ==
    best = PyNone \/ Less(best, candidate)

InitDIC ==
    /\ kind = "DIC"
    /\ pc = "loop"
    /\ fits \in SUBSET Candidates
    /\ logL \in [Candidates -> ScoreOutcomes]
    /\ \A k \in Candidates : k \notin fits => logL[k] = Fail
    /\ lenX = 3
    /\ n_features = 1
    /\ SweepInit
    /\ best_score = PyNone
    /\ \E w \in 1..MaxWords : words = 1..w
    /\ this_word \in words
    /\ DicIdle
    /\ sequences = 0 /\ CvIdle
    /\ RecIdle

\* self.base_model(n).score(self.X, self.lengths) and the set-up of the inner loop
DICOwn ==
    /\ kind = "DIC"
    /\ pc = "loop"
    /\ n <= MaxN
    /\ LET s == hmm_score(base_model(n, n \in fits), logL[n]) IN
         IF ~s.ok
         THEN \* except: pass
              /\ n' = continue_sweep(n)
              /\ score' = PyNone
              /\ crit' = [crit EXCEPT ![n] = PyNone]
              /\ UNCHANGED <<pc, todo, log_P_X_i, sum_log_P_X_all_but_i, M>>
         ELSE /\ log_P_X_i' = s.v
              /\ sum_log_P_X_all_but_i' = 0
              /\ M' = Cardinality(words)
              /\ todo' = OtherWords(words, this_word)
              /\ pc' = "others"
              /\ UNCHANGED <<n, score, crit>>
    /\ seen' = <<>>
    /\ call' = [fit |-> Whole(this_word), states |-> n,
                scored |-> IF n \in fits THEN Whole(this_word) ELSE NoData]
    /\ UNCHANGED <<kind, result, oracleVars, best_model, best_num_components,
                   best_score, words, this_word, cvVars, recVars>>

\* one pass of the loop over the other words: a ModelSelector for word, its
\* base_model(n), scored on its own X and lengths
DICOther ==
    /\ kind = "DIC"
    /\ pc = "others"
    /\ todo # <<>>
    /\ \E fitOK \in BOOLEAN, outcome \in ScoreOutcomes :
         /\ ~fitOK => outcome = Fail
         /\ LET word == Head(todo)
                s == hmm_score(base_model(n, fitOK), outcome)
            IN  /\ IF s.ok
                   THEN /\ sum_log_P_X_all_but_i' = sum_log_P_X_all_but_i + s.v
                        /\ seen' = Append(seen, s.v)
                        /\ UNCHANGED M
                   ELSE /\ M' = M - 1
                        /\ UNCHANGED <<sum_log_P_X_all_but_i, seen>>
                /\ call' = [fit |-> Whole(word), states |-> n,
                            scored |-> IF fitOK THEN Whole(word) ELSE NoData]
    /\ todo' = Tail(todo)
    /\ UNCHANGED <<kind, pc, result, oracleVars, sweepVars, words, this_word,
                   log_P_X_i, cvVars, crit, recVars>>

\* the DIC of the candidate and the comparison with the best so far
DICCompare ==
    /\ kind = "DIC"
    /\ pc = "others"
    /\ todo = <<>>
    /\ LET r == DIC_value(log_P_X_i, sum_log_P_X_all_but_i, M, Cardinality(words)) IN
         IF r.raised
         THEN \* except: pass
              /\ score' = PyNone
              /\ n' = continue_sweep(n)
              /\ UNCHANGED <<best_score, best_num_components>>
         ELSE /\ score' = r.DIC
              /\ n' = n + 1
              /\ IF better(best_score, r.DIC)
                 THEN best_score' = r.DIC /\ best_num_components' = n
                 ELSE UNCHANGED <<best_score, best_num_components>>
    /\ crit' = [crit EXCEPT ![n] = RefDIC(n, seen)]
    /\ pc' = "loop"
    /\ UNCHANGED <<kind, result, oracleVars, best_model, dicVars, cvVars, call,
                   seen, recVars>>

DICReturn ==
    /\ kind = "DIC"
    /\ pc = "loop"
    /\ n > MaxN
    /\ result' = select_return(best_num_components, fits)
    /\ call' = [fit |-> Whole(this_word),
                states |-> IF best_num_components = 0 THEN n_constant
                           ELSE best_num_components,
                scored |-> NoData]
    /\ pc' = "done"
    /\ UNCHANGED <<kind, oracleVars, sweepVars, dicVars, cvVars, seen, crit, recVars>>

----------------------------------------------------------------------------
(* SelectorCV *)

\* KFold(n_splits).split without shuffling: the first (count % n_splits) folds
\* hold one sequence more; the test indices of fold f (1-based, as are indices)
FoldSize(count, f) ==
    (count \div n_splits) + (IF f <= count % n_splits THEN 1 ELSE 0)

RECURSIVE FoldStart(_, _)
FoldStart(count, f) ==
    IF f = 1 THEN 1 ELSE FoldStart(count, f - 1) + FoldSize(count, f - 1)

cv_test(count, f) == FoldStart(count, f)..(FoldStart(count, f) + FoldSize(count, f) - 1)
cv_train(count, f) == (1..count) \ cv_test(count, f)

split_never_raises(count) == FALSE

\* split raises ValueError when there are fewer samples than splits
split_raises(count) == count < n_splits

\* if count_logL > 0: avg_logL = sum_logL / count_logL
CV_avg(total, count) ==
    IF count > 0 THEN Float(total, count) ELSE PyNone

InitCV ==
    /\ kind = "CV"
    /\ pc = "loop"
    /\ fits \in SUBSET Candidates
    /\ NoScores
    /\ SweepInit
    /\ best_score = PyNone
    /\ OneClass /\ DicIdle
    /\ sequences \in 0..MaxSeqs
    /\ CvIdle
    /\ RecIdle

\* count_logL = 0, sum_logL = 0., KFold(n_splits=3) and the start of the split
CVStart ==
    /\ kind = "CV"
    /\ pc = "loop"
    /\ n <= MaxN
    /\ count_logL' = 0
    /\ sum_logL' = 0
    /\ seen' = <<>>
    /\ IF split_raises(sequences)
       THEN \* except: pass
            /\ n' = continue_sweep(n)
            /\ score' = PyNone
            /\ crit' = [crit EXCEPT ![n] = PyNone]
            /\ UNCHANGED <<pc, fold>>
       ELSE /\ fold' = 1
            /\ pc' = "fold"
            /\ UNCHANGED <<n, score, crit>>
    /\ UNCHANGED <<kind, result, oracleVars, best_model, best_num_components,
                   best_score, dicVars, sequences, call, recVars>>

\* one split: X, lengths of the training indices; base_model(n) scored on them
CVFold ==
    /\ kind = "CV"
    /\ pc = "fold"
    /\ fold <= n_splits
    /\ \E outcome \in ScoreOutcomes :
         /\ n \notin fits => outcome = Fail
         /\ LET X == Combined(this_word, cv_train(sequences, fold))
                s == hmm_score(base_model(n, n \in fits), outcome)
            IN  /\ IF s.ok
                   THEN /\ sum_logL' = sum_logL + s.v
                        /\ count_logL' = count_logL + 1
                        /\ seen' = Append(seen, s.v)
                   ELSE UNCHANGED <<sum_logL, count_logL, seen>>
                /\ call' = [fit |-> Whole(this_word), states |-> n,
                            scored |-> IF n \in fits THEN X ELSE NoData]
    /\ fold' = fold + 1
    /\ UNCHANGED <<kind, pc, result, oracleVars, sweepVars, dicVars, sequences,
                   crit, recVars>>

\* the mean over the folds that succeeded and the comparison with the best so far
CVCompare ==
    /\ kind = "CV"
    /\ pc = "fold"
    /\ fold > n_splits
    /\ LET avg_logL == CV_avg(sum_logL, count_logL) IN
         /\ score' = avg_logL
         /\ IF avg_logL # PyNone /\ better(best_score, avg_logL)
            THEN best_score' = avg_logL /\ best_num_components' = n
            ELSE UNCHANGED <<best_score, best_num_components>>
    /\ crit' = [crit EXCEPT ![n] = RefCV(n, seen)]
    /\ n' = n + 1
    /\ pc' = "loop"
    /\ UNCHANGED <<kind, result, oracleVars, best_model, dicVars, cvVars, call,
                   seen, recVars>>

CVReturn ==
    /\ kind = "CV"
    /\ pc = "loop"
    /\ n > MaxN
    /\ result' = select_return(best_num_components, fits)
    /\ call' = [fit |-> Whole(this_word),
                states |-> IF best_num_components = 0 THEN n_constant
                           ELSE best_num_components,
                scored |-> NoData]
    /\ pc' = "done"
    /\ UNCHANGED <<kind, oracleVars, sweepVars, dicVars, cvVars, seen, crit, recVars>>

----------------------------------------------------------------------------
Init == InitConstant \/ InitBIC \/ InitDIC \/ InitCV

Next ==
    \/ ConstantSelect
    \/ BICIter \/ BICReturn
    \/ DICOwn \/ DICOther \/ DICCompare \/ DICReturn
    \/ CVStart \/ CVFold \/ CVCompare \/ CVReturn

Spec == Init /\ [][Next]_vars

----------------------------------------------------------------------------
(* recognize *)

log_entry_zero(s) == IF s.ok THEN Float(s.v, 1) ELSE Float(0, 1)

\* log_l[word] = word_score, or float("-inf") in the except branch
log_entry(s) == IF s.ok THEN Float(s.v, 1) ELSE NegInf

new_max_or_equal(word_score, max) == ~Less(word_score, max)

\* word_score > max_score
new_max(word_score, max) == Less(max, word_score)

SelectorIdle ==
    /\ fits = {}
    /\ NoScores
    /\ SweepInit
    /\ best_score = PyNone
    /\ OneClass /\ DicIdle
    /\ sequences = 0 /\ CvIdle

InitRec ==
    /\ kind = "recognize"
    /\ pc = "items"
    /\ SelectorIdle
    /\ \E w \in 0..MaxModels : models \in [1..w -> {None, Model(n_constant)}]
    /\ items \in 0..MaxItems
    /\ item = 1
    /\ rest = <<>>
    /\ log_l = <<>>
    /\ max_score = NegInf
    /\ best_guess = 0
    /\ probabilities = <<>>
    /\ guesses = <<>>
    /\ outcomes = <<>>

\* the head of the loop over X_lengths.values()
RecItem ==
    /\ kind = "recognize"
    /\ pc = "items"
    /\ item <= items
    /\ max_score' = NegInf
    /\ best_guess' = 0
    /\ log_l' = <<>>
    /\ rest' = [i \in 1..Len(models) |-> i]
    /\ outcomes' = Append(outcomes, <<>>)
    /\ pc' = "words"
    /\ UNCHANGED <<kind, result, oracleVars, sweepVars, dicVars, cvVars, histVars,
                   models, items, item, probabilities, guesses>>

\* one pass of the loop over models.items()
RecWord ==
    /\ kind = "recognize"
    /\ pc = "words"
    /\ rest # <<>>
    /\ \E outcome \in ScoreOutcomes :
         LET word == Head(rest)
             model == models[word]
             s == hmm_score(model, outcome)
         IN  /\ model = None => outcome = Fail
             /\ log_l' = Append(log_l, log_entry(s))
             /\ IF s.ok /\ new_max(Float(s.v, 1), max_score)
                THEN max_score' = Float(s.v, 1) /\ best_guess' = word
                ELSE UNCHANGED <<max_score, best_guess>>
             /\ outcomes' = [outcomes EXCEPT ![Len(outcomes)] = Append(@, s)]
    /\ rest' = Tail(rest)
    /\ UNCHANGED <<kind, pc, result, oracleVars, sweepVars, dicVars, cvVars, histVars,
                   models, items, item, probabilities, guesses>>

\* guesses.append(best_guess); probabilities.append(log_l)
RecAppend ==
    /\ kind = "recognize"
    /\ pc = "words"
    /\ rest = <<>>
    /\ guesses' = Append(guesses, best_guess)
    /\ probabilities' = Append(probabilities, log_l)
    /\ item' = item + 1
    /\ pc' = "items"
    /\ UNCHANGED <<kind, result, oracleVars, sweepVars, dicVars, cvVars, histVars,
                   models, items, rest, log_l, max_score, best_guess, outcomes>>

\* return probabilities, guesses
RecReturn ==
    /\ kind = "recognize"
    /\ pc = "items"
    /\ item > items
    /\ pc' = "done"
    /\ UNCHANGED <<kind, result, oracleVars, sweepVars, dicVars, cvVars, histVars,
                   recVars>>

NextRec == RecItem \/ RecWord \/ RecAppend \/ RecReturn

SpecRec == InitRec /\ [][NextRec]_vars

----------------------------------------------------------------------------
(* Properties *)

Selecting == kind \in {"BIC", "DIC", "CV"}
OwnOK(k) == k \in fits /\ logL[k].ok

\* the criterion of candidate k, from the trainer's outcomes
Crit(k) == IF kind = "BIC" THEN RefBIC(k) ELSE crit[k]

\* a is preferred to b: lower BIC, higher DIC or mean log-likelihood
Preferred(a, b) == IF kind = "BIC" THEN Less(a, b) ELSE Less(b, a)

UsableIn(S) == {k \in S : Usable(Crit(k))}

\* the first candidate of U that no candidate of U is preferred to
BestOf(U) ==
    CHOOSE k \in U : \A j \in U :
        /\ ~Preferred(Crit(j), Crit(k))
        /\ j < k => Preferred(Crit(k), Crit(j))

\* what a sweep over the candidates S has to return
RefSelect(S) ==
    IF UsableIn(S) = {} THEN Fallback ELSE Model(BestOf(UsableIn(S)))

\* steps select() has left at most
PerCandidate == MaxWords + n_splits + 2
Work ==
    CASE pc = "done" -> 0
      [] pc = "loop" -> 1 + (MaxN + 1 - n) * PerCandidate
      [] pc = "others" -> 2 + (MaxN - n) * PerCandidate + Len(todo)
      [] pc = "fold" -> 2 + (MaxN - n) * PerCandidate + (n_splits + 1 - fold)

C1_ResultOK ==
    /\ result.tag \in {"Pending", "Model", "None"}
    /\ (pc = "done") <=> (result # Pending)
    /\ pc # "done" => ENABLED Next

\* C1: whatever fits and scores fail, select() of each of the four selectors
\* never raises, never stops before its return, takes a bounded number of
\* steps, and returns one value: a model or None.
C1_SelectReturnsOneResult ==
    /\ [](C1_ResultOK)
    /\ [][Work' < Work]_vars

C1_Witness ==
    /\ kind = "DIC"
    /\ pc = "done"
    /\ fits # {} /\ n_constant \notin fits
    /\ \E k \in Candidates : OwnOK(k)
    /\ result = None

\* C2: SelectorBIC, SelectorDIC, SelectorCV: when no candidate has a usable
\* criterion value, select() returns the model trained at n_constant, and
\* None when that fit fails.
C2_FallbackToConstant ==
    (Selecting /\ pc = "done" /\ UsableIn(Candidates) = {})
        => result = (IF n_constant \in fits THEN Model(n_constant) ELSE None)

C2_Witness ==
    /\ kind = "CV"
    /\ pc = "done"
    /\ sequences >= n_splits
    /\ UsableIn(Candidates) = {}
    /\ result = Model(n_constant)

\* C3: SelectorBIC returns the model fitted at a candidate whose
\* BIC = -2 logL + (n^2 + 2 d n - 1) ln N is the minimum over the candidates
\* that fitted and scored; failed candidates take no part and do not stop
\* the sweep.
C3_BICMinimum ==
    (kind = "BIC" /\ pc = "done" /\ UsableIn(Candidates) # {})
        => /\ result.tag = "Model"
           /\ result.n_components \in UsableIn(Candidates)
           /\ \A k \in UsableIn(Candidates) :
                  ~Less(RefBIC(k), RefBIC(result.n_components))
           /\ best_score = RefBIC(result.n_components)

C3_Witness ==
    /\ kind = "BIC"
    /\ pc = "done"
    /\ result = Model(MaxN)
    /\ min_n_components \notin fits
    /\ \E k \in UsableIn(Candidates) : k < MaxN /\ logL[k].v < logL[MaxN].v

\* C4: SelectorDIC scores every other class's data under the target class's
\* model at n, and returns the model at the candidate that maximises the own
\* log-likelihood minus the mean of those scores.
C4_DICCrossLikelihood ==
    /\ (kind = "DIC" /\ pc = "others" /\ call.scored.word \notin {0, this_word})
           => (call.fit = Whole(this_word) /\ call.states = n)
    /\ (kind = "DIC" /\ pc = "done" /\ UsableIn(Candidates) # {})
           => result = Model(BestOf(UsableIn(Candidates)))

\* C5: SelectorCV fits, for each candidate and fold, a model on the training
\* fold only and scores the held-out fold under it; it selects the candidate
\* with the highest mean over its successful folds.
C5_CVHeldOut ==
    /\ (kind = "CV" /\ pc = "fold" /\ fold > 1 /\ n \in fits)
           => /\ call.fit = Combined(this_word, cv_train(sequences, fold - 1))
              /\ call.scored = Combined(this_word, cv_test(sequences, fold - 1))
              /\ call.states = n
    /\ (kind = "CV" /\ pc = "done" /\ UsableIn(Candidates) # {})
           => result = Model(BestOf(UsableIn(Candidates)))

Finite(x) == x[2] # 0
Classes == 1..Len(models)

\* C6: for every test item the guess is a class whose score is the maximum
\* over the classes of the model map, and among several classes at the
\* maximum it is the first in iteration order.
C6_FirstMaximumWins ==
    \A i \in 1..Len(guesses) :
        LET g == guesses[i]
            row == probabilities[i]
        IN  /\ (\E w \in Classes : Finite(row[w])) => g # 0
            /\ g # 0 =>
                 /\ g \in Classes
                 /\ \A w \in Classes : ~Less(row[g], row[w])
                 /\ \A w \in Classes : w < g => Less(row[w], row[g])

C6_Witness ==
    /\ pc = "done"
    /\ \E i \in 1..Len(guesses) : \E w \in Classes :
         /\ guesses[i] # 0
         /\ guesses[i] > 1
         /\ w > guesses[i]
         /\ probabilities[i][w] = probabilities[i][guesses[i]]

\* C7: recognize returns two lists with one element per test item, in item
\* order; each mapping has one entry per class, the log-likelihood when the
\* score succeeded and -inf when it failed (a None model included); a class
\* whose score failed is never the guess, the guess is None when every class
\* failed, and a failure stops neither the other classes nor the other items.
C7_RecognizeOutput ==
    /\ Len(probabilities) = Len(guesses)
    /\ Len(guesses) = item - 1
    /\ pc = "done" => Len(guesses) = items
    /\ \A i \in 1..Len(guesses) :
         /\ Len(probabilities[i]) = Len(models)
         /\ Len(outcomes[i]) = Len(models)
         /\ \A w \in Classes :
              /\ probabilities[i][w] =
                     (IF outcomes[i][w].ok THEN <<outcomes[i][w].v, 1>> ELSE NegInf)
              /\ models[w] = None => probabilities[i][w] = NegInf
         /\ guesses[i] # 0 => outcomes[i][guesses[i]].ok
         /\ (\A w \in Classes : ~outcomes[i][w].ok) => guesses[i] = 0

C7_Witness ==
    /\ pc = "done"
    /\ items > 1
    /\ \E w \in Classes : models[w] = None
    /\ guesses[1] = 0
    /\ \E w \in Classes : models[w] # None /\ ~outcomes[1][w].ok
    /\ guesses[items] # 0
    /\ \E w \in Classes : w < guesses[items] /\ ~outcomes[items][w].ok

\* C8: SelectorBIC, SelectorDIC, SelectorCV: when the trainer fails at a
\* candidate f, select() returns what a sweep over the candidates without f
\* returns.
C8_FailureContainment ==
    (Selecting /\ pc = "done")
        => \A f \in Candidates \ fits : result = RefSelect(Candidates \ {f})

C8_Witness ==
    /\ kind = "BIC"
    /\ pc = "done"
    /\ \E f \in Candidates \ fits :
         /\ min_n_components < f /\ f < MaxN
         /\ result = Model(MaxN)
         /\ OwnOK(min_n_components)

\* C9: SelectorDIC, candidate with own fit and score: the other classes that
\* fail are left out of the sum and of the divisor and the candidate still
\* competes; when no other class succeeds the candidate is excluded and no
\* division fault leaves select().
C9_DICDivisor ==
    /\ result.tag # "Raise"
    /\ (kind = "DIC" /\ pc = "loop" /\ n > min_n_components /\ OwnOK(n - 1))
           => /\ M - 1 = Len(seen)
              /\ sum_log_P_X_all_but_i = SumSeq(seen)
              /\ score = RefDIC(n - 1, seen)
              /\ seen # <<>> =>
                    /\ Usable(score)
                    /\ Usable(best_score)
                    /\ ~Less(best_score, score)
                    /\ best_num_components # 0
              /\ seen = <<>> =>
                    /\ score = PyNone
                    /\ best_num_components # n - 1

C9_Witness ==
    /\ kind = "DIC"
    /\ pc = "loop"
    /\ n > min_n_components + 1
    /\ OwnOK(n - 1) /\ OwnOK(n - 2)
    /\ ~Usable(crit[n - 2])
    /\ seen # <<>>
    /\ M < Cardinality(words)
    /\ best_num_components = n - 1

\* C10: SelectorCV: a candidate without a successful fold is never selected;
\* with fewer than n_splits sequences select() returns the model trained at
\* n_constant, or None when that fit fails.
C10_CVZeroFolds ==
    kind = "CV" =>
        /\ best_num_components # 0 => Usable(crit[best_num_components])
        /\ pc = "done" =>
             /\ result.tag # "Raise"
             /\ result.tag = "Model" =>
                  result.n_components =
                      (IF best_num_components = 0 THEN n_constant
                       ELSE best_num_components)
             /\ sequences < n_splits => result = Fallback

C10_Witness ==
    /\ kind = "CV"
    /\ pc = "done"
    /\ sequences > 0 /\ sequences < n_splits
    /\ fits = Candidates
    /\ result = Model(n_constant)

====
